---- MODULE Spec2Model ----
(***************************************************************************)
(* AntiFlattenDistributionStrategy (strategy/antiflatten_distribution_     *)
(* strategy.py): the strategy object's three fields, its four hooks and   *)
(* the flatness classifier, driven by a host decoding loop.               *)
(*                                                                         *)
(* Representation.                                                         *)
(*  - A probability distribution is a record [w, den]: w is the sequence  *)
(*    of numerators, one per token id (token id t is w[t+1]), den the     *)
(*    common denominator, so that the probability of t is w[t+1]/den.     *)
(*    All comparisons of the classifier are done exactly, cross           *)
(*    multiplied, on these rationals.                                      *)
(*  - Python's None for the backtrack position is the empty tuple <<>>;   *)
(*    a pending position is the pair <<frontier index, token id>>.        *)
(*  - A cache is [present, layers]: present = FALSE is None; layers is a  *)
(*    tuple of kv pairs, each a tuple of arrays, each array the sequence  *)
(*    of its entries along the sequence-position axis (axis 2).           *)
(*  - logits is one row of the logits tensor (token id t is logits[t+1]). *)
(***************************************************************************)
EXTENDS Integers, Sequences, FiniteSets

\* ---------------------------------------------------------------- bounds
MaxLen == 3          \* longest continuation the host generates
VocabSize == 3       \* token ids are 0 .. VocabSize-1
MaxLayers == 1       \* most kv pairs in a supplied cache
GridN == 6           \* vocabulary size of the grid distributions
MaxWeight == 2       \* grid distributions have weights 0 .. MaxWeight

\* ------------------------------------------------------ program constants
CumNum == 7          \* cumulative_prob_threshold = 0.35 = CumNum / CumDen
CumDen == 20
RatioNum == 3        \* ratio_threshold = 1.5 = RatioNum / RatioDen
RatioDen == 2
EpsDen == 100000000  \* the 1e-8 added to the divisor is 1 / EpsDen
FMax == 9            \* torch.finfo(logits.dtype).max, above every model logit

None == <<>>
Vocab == 0 .. (VocabSize - 1)
NoCache == [present |-> FALSE, layers |-> <<>>]
NoDist == [w |-> <<>>, den |-> 1]

VARIABLES
  is_flat,              \* self._is_flat
  backtrack_position,   \* self._backtrack_position
  keep_index,           \* self._keep_index
  tokens,               \* the host's continuation_tokens list
  probs,                \* on_probs: the distribution returned
  probs_in,             \* on_probs: the distribution passed in
  pc,                   \* the hook the host calls next
  last_op,              \* the call made last
  logits_in,            \* on_logits: the logits passed in
  logits,               \* on_logits: the logits returned
  forced,               \* on_logits: whether the last call forced a token
  after_force,          \* on_logits: whether the call before it was a
                        \*   forcing on_logits call
  bp_at_logits,         \* on_logits: the position pending before the call
  tokens_in,            \* backtrack: the tokens passed in
  cache_in,             \* backtrack: the cache passed in
  past_key_values,      \* backtrack: the cache returned
  executed,             \* backtrack: whether the gate of the last call held
  bp_before,            \* on_next_token: the position pending before the call
  diverged,             \* on_next_token: whether sampled # argmax
  highest_prob_token,   \* on_next_token: the argmax it computed
  recorded_flat,        \* the verdict at the call that recorded the position
  force_count,          \* forcings since the position was recorded
  max_keep              \* largest keep index reached so far

vars == <<is_flat, backtrack_position, keep_index, tokens, probs, probs_in,
          pc, last_op, logits_in, logits, forced, after_force, bp_at_logits,
          tokens_in, cache_in, past_key_values, executed, bp_before, diverged,
          highest_prob_token, recorded_flat, force_count, max_keep>>

\* ------------------------------------------------------------ sequences
Min(a, b) == IF a < b THEN a ELSE b
Max(a, b) == IF a > b THEN a ELSE b

\* Python s[:stop]: a negative stop counts from the end, and both clip.
PySliceTo(s, stop) ==
  LET n == IF stop < 0 THEN Max(0, Len(s) + stop) ELSE Min(stop, Len(s))
  IN SubSeq(s, 1, n)

RemoveAt(s, i) == SubSeq(s, 1, i - 1) \o SubSeq(s, i + 1, Len(s))

\* Index (1-based) of the first largest element.
MaxIdx(s) ==
  CHOOSE i \in 1 .. Len(s) :
    /\ \A j \in 1 .. Len(s) : s[j] <= s[i]
    /\ \A j \in 1 .. (i - 1) : s[j] < s[i]

\* torch.argmax over the flattened distribution: a token id.
ArgMax(d) == MaxIdx(d.w) - 1

\* torch.sort(probs, descending=True): the values.
RECURSIVE SortDesc(_)
SortDesc(s) ==
  IF s = <<>> THEN <<>>
  ELSE <<s[MaxIdx(s)]>> \o SortDesc(RemoveAt(s, MaxIdx(s)))

RECURSIVE SumTo(_, _)
SumTo(s, i) == IF i = 0 THEN 0 ELSE s[i] + SumTo(s, i - 1)

\* torch.cumsum
CumSum(s) == [i \in 1 .. Len(s) |-> SumTo(s, i)]

\* torch.searchsorted(cumulative_probs, cumulative_prob_threshold) on a
\* nondecreasing sequence: the number of entries below the threshold.
SearchSorted(c, den) ==
  Cardinality({i \in 1 .. Len(c) : c[i] * CumDen < CumNum * den})

\* The comparison with a strict bound.
RatioLt(t, b, den) ==
  t * RatioDen - RatioNum * b < 0

\* max_prob / (last + 1e-8) <= ratio_threshold, for max_prob = t/den and
\* last = b/den:  (t*RatioDen - RatioNum*b) * EpsDen <= RatioNum * den.
RatioLeq(t, b, den) ==
  t * RatioDen - RatioNum * b <= (RatioNum * den) \div EpsDen

\* _is_distribution_flat
IsDistributionFlat(d) ==
  LET sorted_probs == SortDesc(d.w)
      cumulative_probs == CumSum(sorted_probs)
      num_top_tokens == SearchSorted(cumulative_probs, d.den) + 1
      top_probs == PySliceTo(sorted_probs, num_top_tokens)
  IN IF num_top_tokens < 2 THEN FALSE
     ELSE RatioLeq(top_probs[1], top_probs[Len(top_probs)], d.den)

\* ------------------------------------------------------------ the hooks
\* on_logits, line 18, and backtrack, line 41: the same condition twice.
ForceGatePendingOnly(flat, position) == position # None

ForceGate(flat, position) == flat /\ position # None

BacktrackGatePendingOnly(flat, position) == position # None

BacktrackGate(flat, position) == flat /\ position # None

\* on_logits, line 20: the position left behind by a forcing call.
PositionAfterForceKept(position) == position

PositionAfterForce(position) == None

\* on_logits, line 19: logits[:, position[1]] = finfo.max
ForceLogitAtFrontier(l, position) == [l EXCEPT ![position[1] + 1] = FMax]

ForceLogit(l, position) == [l EXCEPT ![position[2] + 1] = FMax]

\* on_next_token, lines 28-36: the keep index and the position it leaves.
Diverges(toks, d) == toks[Len(toks)] # ArgMax(d)

KeepAfterNextTokenUnfrozen(toks, d, keep, position) ==
  IF Diverges(toks, d) THEN Len(toks) - 1 ELSE keep + 1

KeepAfterNextTokenAtEnd(toks, d, keep, position) ==
  IF Diverges(toks, d) THEN Len(toks)
  ELSE IF position = None THEN keep + 1 ELSE keep

KeepAfterNextTokenNoAdvance(toks, d, keep, position) ==
  IF Diverges(toks, d) THEN Len(toks) - 1 ELSE keep

KeepAfterNextToken(toks, d, keep, position) ==
  IF Diverges(toks, d) THEN Len(toks) - 1
  ELSE IF position = None THEN keep + 1 ELSE keep

PositionAfterNextTokenEarlier(toks, d, keep, position) ==
  IF Diverges(toks, d)
    THEN <<Max(0, KeepAfterNextToken(toks, d, keep, position) - 1), ArgMax(d)>>
    ELSE position

PositionAfterNextTokenSampled(toks, d, keep, position) ==
  IF Diverges(toks, d)
    THEN <<KeepAfterNextToken(toks, d, keep, position), toks[Len(toks)]>>
    ELSE position

PositionAfterNextToken(toks, d, keep, position) ==
  IF Diverges(toks, d)
    THEN <<KeepAfterNextToken(toks, d, keep, position), ArgMax(d)>>
    ELSE position

\* backtrack, lines 45-47: pop while the length is above the frontier.
RECURSIVE PopWhileInclusive(_, _)
PopWhileInclusive(toks, frontier) ==
  IF Len(toks) >= frontier /\ toks # <<>>
    THEN PopWhileInclusive(SubSeq(toks, 1, Len(toks) - 1), frontier)
    ELSE toks

RECURSIVE PopWhile(_, _)
PopWhile(toks, frontier) ==
  IF Len(toks) > frontier
    THEN PopWhile(SubSeq(toks, 1, Len(toks) - 1), frontier)
    ELSE toks

\* backtrack, line 49: `if past_key_values:` is false for None and for ().
Truthy(c) == c.present /\ c.layers # <<>>

\* backtrack, line 50: layer[:, :, :stop, :] for every array of every pair.
SliceCacheFirstPair(c, stop) ==
  [c EXCEPT !.layers =
     [i \in 1 .. Len(c.layers) |->
        [j \in 1 .. Len(c.layers[i]) |->
           IF i = 1 /\ j = 1 THEN PySliceTo(c.layers[i][j], stop)
           ELSE c.layers[i][j]]]]

SliceCache(c, stop) ==
  [c EXCEPT !.layers =
     [i \in 1 .. Len(c.layers) |->
        [j \in 1 .. Len(c.layers[i]) |-> PySliceTo(c.layers[i][j], stop)]]]

ClearLogitsRecord == logits_in' = <<>> /\ logits' = <<>>
ClearCacheRecord ==
  tokens_in' = <<>> /\ cache_in' = NoCache /\ past_key_values' = NoCache

\* on_probs, line 25: the value returned.
ProbsReturnedSorted(d) == [d EXCEPT !.w = SortDesc(d.w)]

ProbsReturned(d) == d

\* backtrack, lines 41-52: no assignment to _backtrack_position.
PositionAfterBacktrackCleared(position) == None

PositionAfterBacktrack(position) == position

\* What each call does to the three fields and to the token list.
OnLogitsCore ==
  /\ backtrack_position' =
       IF ForceGate(is_flat, backtrack_position)
         THEN PositionAfterForce(backtrack_position)
         ELSE backtrack_position
  /\ UNCHANGED <<is_flat, keep_index, tokens>>

OnProbsCore(d) ==
  /\ is_flat' = IsDistributionFlat(d)
  /\ UNCHANGED <<backtrack_position, keep_index, tokens>>

OnNextTokenCore(d) ==
  /\ tokens # <<>>
  /\ keep_index' = KeepAfterNextToken(tokens, d, keep_index, backtrack_position)
  /\ backtrack_position' =
       PositionAfterNextToken(tokens, d, keep_index, backtrack_position)
  /\ UNCHANGED <<is_flat, tokens>>

BacktrackCore ==
  /\ tokens' =
       IF BacktrackGate(is_flat, backtrack_position)
         THEN PopWhile(tokens, backtrack_position[1])
         ELSE tokens
  /\ backtrack_position' = PositionAfterBacktrack(backtrack_position)
  /\ UNCHANGED <<is_flat, keep_index>>

AppendCore(t) ==
  /\ tokens' = Append(tokens, t)
  /\ UNCHANGED <<is_flat, backtrack_position, keep_index>>

\* on_logits(logits, continuation_tokens)
OnLogits(l) ==
  /\ last_op' = "on_logits"
  /\ OnLogitsCore
  /\ logits_in' = l
  /\ bp_at_logits' = backtrack_position
  /\ after_force' = (last_op = "on_logits" /\ forced)
  /\ IF ForceGate(is_flat, backtrack_position)
       THEN /\ logits' = ForceLogit(l, backtrack_position)
            /\ forced' = TRUE
            /\ force_count' = Min(force_count + 1, 2)
       ELSE /\ logits' = l
            /\ forced' = FALSE
            /\ UNCHANGED force_count
  /\ ClearCacheRecord
  /\ UNCHANGED <<probs, probs_in, executed, bp_before, diverged,
                 highest_prob_token, recorded_flat, max_keep>>

\* on_probs(probs, continuation_tokens)
OnProbs(d) ==
  /\ last_op' = "on_probs"
  /\ OnProbsCore(d)
  /\ probs_in' = d
  /\ probs' = ProbsReturned(d)
  /\ ClearLogitsRecord
  /\ ClearCacheRecord
  /\ UNCHANGED <<forced, after_force, bp_at_logits, executed, bp_before,
                 diverged, highest_prob_token, recorded_flat, force_count,
                 max_keep>>

\* on_next_token(continuation_tokens, probs); tokens[-1] needs a token.
OnNextToken(d) ==
  /\ last_op' = "on_next_token"
  /\ OnNextTokenCore(d)
  /\ highest_prob_token' = ArgMax(d)
  /\ diverged' = Diverges(tokens, d)
  /\ bp_before' = backtrack_position
  /\ recorded_flat' = IF Diverges(tokens, d) THEN is_flat ELSE recorded_flat
  /\ force_count' = IF Diverges(tokens, d) THEN 0 ELSE force_count
  /\ max_keep' = Max(max_keep, keep_index')
  /\ ClearLogitsRecord
  /\ ClearCacheRecord
  /\ UNCHANGED <<probs, probs_in, forced, after_force, bp_at_logits, executed>>

\* backtrack(continuation_tokens, past_key_values)
Backtrack(c) ==
  /\ last_op' = "backtrack"
  /\ BacktrackCore
  /\ tokens_in' = tokens
  /\ cache_in' = c
  /\ executed' = BacktrackGate(is_flat, backtrack_position)
  /\ past_key_values' =
       IF BacktrackGate(is_flat, backtrack_position) /\ Truthy(c)
         THEN SliceCache(c, Len(tokens') - Len(tokens))
         ELSE c
  /\ ClearLogitsRecord
  /\ UNCHANGED <<probs, probs_in, forced, after_force, bp_at_logits,
                 bp_before, diverged, highest_prob_token, recorded_flat,
                 force_count, max_keep>>

\* The host appends the token it sampled.
AppendToken(t) ==
  /\ last_op' = "sample"
  /\ AppendCore(t)
  /\ ClearLogitsRecord
  /\ ClearCacheRecord
  /\ UNCHANGED <<probs, probs_in, forced, after_force, bp_at_logits,
                 executed, bp_before, diverged, highest_prob_token,
                 recorded_flat, force_count, max_keep>>

\* The host makes no backtrack call on this step.
NoBacktrackCall ==
  /\ last_op' = "skip"
  /\ executed' = FALSE
  /\ ClearLogitsRecord
  /\ ClearCacheRecord
  /\ UNCHANGED <<is_flat, backtrack_position, keep_index, tokens, probs,
                 probs_in, forced, after_force, bp_at_logits, bp_before,
                 diverged, highest_prob_token, recorded_flat, force_count,
                 max_keep>>

\* ------------------------------------------------------------- the inputs
TokenIdx == 1 .. VocabSize

\* One token clearly ahead: the first token alone reaches the threshold.
Peaked(a) ==
  [w |-> [i \in TokenIdx |-> IF i = a + 1 THEN 10 ELSE 1], den |-> 9 + VocabSize]

\* Nearly uniform, token a slightly ahead, every probability below 0.35.
NearUniform(a) ==
  [w |-> [i \in TokenIdx |-> IF i = a + 1 THEN 34 ELSE 33],
   den |-> 33 * VocabSize + 1]

\* softmax of a row holding finfo.max at token a.
OneHot(a) == [w |-> [i \in TokenIdx |-> IF i = a + 1 THEN 1 ELSE 0], den |-> 1]

DistSet == {Peaked(a) : a \in Vocab} \cup {NearUniform(a) : a \in Vocab}

\* The rows the model hands to on_logits: level, or one token ahead.
LogitRows ==
  {[i \in TokenIdx |-> 0]}
    \cup {[i \in TokenIdx |-> IF i = a + 1 THEN 1 ELSE 0] : a \in Vocab}

\* The distributions the model can produce from the returned logits: a
\* forced logit takes all the probability mass.
ModelOutputs(l) ==
  IF \E a \in Vocab : l[a + 1] = FMax
    THEN {OneHot(a) : a \in {b \in Vocab : l[b + 1] = FMax}}
    ELSE DistSet

Arr(n) == [j \in 1 .. n |-> j]
MkCache(nl, n) ==
  [present |-> TRUE, layers |-> [i \in 1 .. nl |-> <<Arr(n), Arr(n)>>]]
Caches ==
  {NoCache, [present |-> TRUE, layers |-> <<>>]}
    \cup {MkCache(nl, n) : nl \in 1 .. MaxLayers, n \in 0 .. (MaxLen + 1)}

\* ------------------------------------------- the stream, in call order
Init ==
  /\ is_flat = FALSE
  /\ backtrack_position = None
  /\ keep_index = 0
  /\ tokens = <<>>
  /\ probs = NoDist
  /\ pc = "on_logits"
  /\ last_op = "init"
  /\ logits_in = <<>>
  /\ logits = <<>>
  /\ forced = FALSE
  /\ after_force = FALSE
  /\ bp_at_logits = None
  /\ probs_in = NoDist
  /\ tokens_in = <<>>
  /\ cache_in = NoCache
  /\ past_key_values = NoCache
  /\ executed = FALSE
  /\ bp_before = None
  /\ diverged = FALSE
  /\ highest_prob_token = 0
  /\ recorded_flat = FALSE
  /\ force_count = 0
  /\ max_keep = 0

HostOnLogits ==
  /\ pc = "on_logits"
  /\ \E l \in LogitRows : OnLogits(l)
  /\ pc' = "on_probs"

HostOnProbs ==
  /\ pc = "on_probs"
  /\ \E d \in ModelOutputs(logits) : OnProbs(d)
  /\ pc' = "sample"

HostSample ==
  /\ pc = "sample"
  /\ Len(tokens) < MaxLen
  /\ \E t \in Vocab : probs.w[t + 1] > 0 /\ AppendToken(t)
  /\ pc' = "on_next_token"

HostOnNextToken ==
  /\ pc = "on_next_token"
  /\ OnNextToken(probs)
  /\ pc' = "backtrack"

HostBacktrack ==
  /\ pc = "backtrack"
  /\ \E c \in Caches : Backtrack(c)
  /\ pc' = "on_logits"

HostSkipBacktrack ==
  /\ pc = "backtrack"
  /\ NoBacktrackCall
  /\ pc' = "on_logits"

Next ==
  \/ HostOnLogits
  \/ HostOnProbs
  \/ HostSample
  \/ HostOnNextToken
  \/ HostBacktrack
  \/ HostSkipBacktrack

Spec == Init /\ [][Next]_vars

\* --------------------------- the stream, with on_logits calls repeated
\* The host calls on_logits again before it runs the model.
HostRepeatOnLogits ==
  /\ pc = "on_probs"
  /\ \E l \in LogitRows : OnLogits(l)
  /\ UNCHANGED pc

RepeatNext ==
  \/ Next
  \/ HostRepeatOnLogits

RepeatSpec == Init /\ [][RepeatNext]_vars

\* The same loop with a host that may call backtrack again before the next
\* on_logits call.
HostRepeatBacktrack ==
  /\ pc = "on_logits"
  /\ last_op = "backtrack"
  /\ \E c \in Caches : Backtrack(c)
  /\ UNCHANGED pc

RepeatBacktrackNext == Next \/ HostRepeatBacktrack

RepeatBacktrackSpec == Init /\ [][RepeatBacktrackNext]_vars

\* The loop of a host that calls backtrack on every step.
EveryStepNext ==
  \/ HostOnLogits
  \/ HostOnProbs
  \/ HostSample
  \/ HostOnNextToken
  \/ HostBacktrack

EveryStepSpec == Init /\ [][EveryStepNext]_vars

\* ------------------------------------------ the hooks, in any call order
\* The calls act on the three fields and on the token list only; the
\* records of the calls' arguments and results are not kept here.
records == <<probs, probs_in, pc, logits_in, logits, forced, after_force,
             bp_at_logits, tokens_in, cache_in, past_key_values, executed,
             bp_before, diverged, highest_prob_token, recorded_flat,
             force_count, max_keep>>

AnyOnLogits ==
  /\ last_op' = "on_logits"
  /\ OnLogitsCore
  /\ UNCHANGED records

AnyOnProbs ==
  /\ last_op' = "on_probs"
  /\ \E d \in DistSet : OnProbsCore(d)
  /\ UNCHANGED records

AnyOnNextToken ==
  /\ keep_index <= MaxLen
  /\ last_op' = "on_next_token"
  /\ \E d \in DistSet : OnNextTokenCore(d)
  /\ UNCHANGED records

AnyBacktrack ==
  /\ last_op' = "backtrack"
  /\ BacktrackCore
  /\ UNCHANGED records

AnyAppend ==
  /\ Len(tokens) < MaxLen
  /\ last_op' = "sample"
  /\ \E t \in Vocab : AppendCore(t)
  /\ UNCHANGED records

AnyOrderNext ==
  \/ AnyOnLogits
  \/ AnyOnProbs
  \/ AnyOnNextToken
  \/ AnyBacktrack
  \/ AnyAppend

AnyOrderSpec == Init /\ [][AnyOrderNext]_vars

\* ------------------------------------------- the classifier on its own
RECURSIVE SumAll(_)
SumAll(s) == IF s = <<>> THEN 0 ELSE s[1] + SumAll(Tail(s))

\* Every weight vector over GridN tokens, normalised by its sum.
GridDists ==
  {[w |-> s, den |-> SumAll(s)] :
     s \in {x \in [1 .. GridN -> 0 .. MaxWeight] : SumAll(x) > 0}}

ScenarioA == [w |-> <<50, 48, 2>>, den |-> 100]
ScenarioB == [w |-> <<30, 29, 28, 13>>, den |-> 100]
\* 0.30000001 / (0.2 + 1e-8) is below 1.5 and 0.30000001 / 0.2 is not.
NearRatio ==
  [w |-> <<20000000, 30000001, 20000000, 9999999, 20000000>>,
   den |-> 100000000]

\* The ratio exactly 1.5 at k = 2 and at k = 3, and above it at k = 3.
RatioEdge2 == [w |-> <<2, 3, 2, 2, 2, 2>>, den |-> 13]
RatioEdge3 == [w |-> <<2, 2, 3, 2, 2, 2, 2>>, den |-> 15]
Steep3 == [w |-> <<3, 5, 3, 3, 3, 3, 3>>, den |-> 23]
\* The cumulative sum exactly 0.35 at k = 1 and at k = 2.
CumEdge1 == [w |-> <<7, 7, 6>>, den |-> 20]
CumEdge2 == [w |-> <<3, 4, 3, 3, 3, 2, 2>>, den |-> 20]

FlatDists ==
  GridDists \cup {ScenarioA, ScenarioB, NearRatio, RatioEdge2, RatioEdge3,
                  Steep3, CumEdge1, CumEdge2}

\* A fresh strategy object and a distribution to classify.
FlatInit ==
  /\ is_flat = FALSE
  /\ backtrack_position = None
  /\ keep_index = 0
  /\ tokens = <<>>
  /\ probs \in FlatDists
  /\ pc = "on_probs"
  /\ last_op = "init"
  /\ logits_in = <<>>
  /\ logits = <<>>
  /\ forced = FALSE
  /\ after_force = FALSE
  /\ bp_at_logits = None
  /\ probs_in = NoDist
  /\ tokens_in = <<>>
  /\ cache_in = NoCache
  /\ past_key_values = NoCache
  /\ executed = FALSE
  /\ bp_before = None
  /\ diverged = FALSE
  /\ highest_prob_token = 0
  /\ recorded_flat = FALSE
  /\ force_count = 0
  /\ max_keep = 0

Classify ==
  /\ pc = "on_probs"
  /\ OnProbs(probs)
  /\ pc' = "sample"

FlatSpec == FlatInit /\ [][Classify]_vars

\* ------------------------------------------------------------ the claims
ArraysOf(c) ==
  {c.layers[i][j] : i \in 1 .. Len(c.layers), j \in 1 .. 2}
SeqLenIs(c, n) == \A a \in ArraysOf(c) : Len(a) = n

\* C1. Committed tokens are never rolled back: after every backtrack call
\* the returned sequence is a prefix of the one passed in and is at least
\* as long as every keep index value reached so far.
CommittedNeverRolledBack ==
  last_op = "backtrack" =>
    /\ Len(tokens) >= max_keep
    /\ tokens = SubSeq(tokens_in, 1, Len(tokens))

CommittedNeverRolledBackWitness ==
  /\ last_op = "backtrack"
  /\ executed
  /\ Len(tokens) < Len(tokens_in)
  /\ max_keep > 0
  /\ Len(tokens) = max_keep

\* C2, as stated. The keep index decreases only in a backtrack call, and
\* no call made while a position is pending increases it.
CommitMonotonicity ==
  [][/\ keep_index' < keep_index => last_op' = "backtrack"
     /\ backtrack_position # None => keep_index' <= keep_index]_vars

\* C2, amended. The keep index decreases only in a backtrack call, and a
\* call made while a position is pending increases it only if it is an
\* on_next_token call that sees a new divergence, which sets it to
\* len(tokens) - 1.
CommitMonotonicityAmended ==
  [][/\ keep_index' < keep_index => last_op' = "backtrack"
     /\ (backtrack_position # None /\ keep_index' > keep_index) =>
          /\ last_op' = "on_next_token"
          /\ diverged'
          /\ keep_index' = Len(tokens') - 1]_vars

CommitMonotonicityWitness ==
  /\ last_op = "on_next_token"
  /\ ~diverged
  /\ bp_before # None
  /\ backtrack_position = bp_before
  /\ keep_index = bp_before[1]
  /\ keep_index < Len(tokens) - 1

\* C3. After on_next_token and after backtrack the keep index is at most
\* the length of the continuation token sequence.
KeepIndexWithinLength ==
  last_op \in {"on_next_token", "backtrack"} => keep_index <= Len(tokens)

KeepIndexWithinLengthWitness ==
  /\ last_op = "backtrack"
  /\ executed
  /\ keep_index = Len(tokens)
  /\ keep_index > 0

\* C4. Truncation consistency: after a backtrack call that executes,
\* len(tokens) is the frontier index of the pending position, and a cache
\* passed in with len(tokens) sequence positions comes back with every
\* array of every layer cut to the frontier index.
TruncationConsistency ==
  (last_op = "backtrack" /\ executed) =>
    /\ Len(tokens) = backtrack_position[1]
    /\ (Truthy(cache_in) /\ SeqLenIs(cache_in, Len(tokens_in))) =>
         /\ Len(past_key_values.layers) = Len(cache_in.layers)
         /\ SeqLenIs(past_key_values, backtrack_position[1])

TruncationConsistencyWitness ==
  /\ last_op = "backtrack"
  /\ executed
  /\ Truthy(cache_in)
  /\ SeqLenIs(cache_in, Len(tokens_in))
  /\ Len(tokens_in) = 2
  /\ SeqLenIs(past_key_values, 1)

\* C5. Divergence bookkeeping: after an on_next_token call whose sampled
\* token differs from the argmax, the keep index is len(tokens) - 1 and the
\* pending position is (keep index, argmax), whatever the verdict and
\* whatever was pending before.
DivergenceBookkeeping ==
  (last_op = "on_next_token" /\ tokens[Len(tokens)] # ArgMax(probs)) =>
    /\ keep_index = Len(tokens) - 1
    /\ backtrack_position = <<keep_index, ArgMax(probs)>>

DivergenceBookkeepingWitness ==
  /\ last_op = "on_next_token"
  /\ tokens[Len(tokens)] # ArgMax(probs)
  /\ is_flat
  /\ bp_before # None
  /\ bp_before # backtrack_position
  /\ bp_before[1] < keep_index

\* C6. Single-use force: on_logits forces at most once per recorded
\* divergence; the call that forces clears the pending position, and an
\* on_logits call made straight after it forces nothing and returns the
\* logits unchanged.
SingleUseForce ==
  /\ force_count <= 1
  /\ (last_op = "on_logits" /\ forced) => backtrack_position = None
  /\ (last_op = "on_logits" /\ after_force) =>
       (~forced /\ logits = logits_in)

SingleUseForceWitness ==
  /\ last_op = "on_logits"
  /\ after_force
  /\ is_flat
  /\ force_count = 1
  /\ logits = logits_in

\* C7. Backtrack gate: a backtrack call changes the token sequence or the
\* cache only if the last verdict is flat and a position is pending; in
\* every other state both come back exactly as passed in.
BacktrackGateFrame ==
  last_op = "backtrack" =>
    /\ (tokens # tokens_in \/ past_key_values # cache_in) =>
         (is_flat /\ backtrack_position # None)
    /\ ~(is_flat /\ backtrack_position # None) =>
         (tokens = tokens_in /\ past_key_values = cache_in)

BacktrackGateFrameWitness ==
  /\ last_op = "backtrack"
  /\ ~is_flat
  /\ backtrack_position # None
  /\ Truthy(cache_in)
  /\ tokens = tokens_in
  /\ Len(tokens) > backtrack_position[1]

\* C8, as stated. Whenever backtrack removes tokens, and whenever
\* on_logits forces a token, the position used was recorded at a step
\* whose distribution was classified flat.
RollbackOnlyForFlatDivergence ==
  /\ (last_op = "backtrack" /\ Len(tokens) < Len(tokens_in)) => recorded_flat
  /\ (last_op = "on_logits" /\ forced) => recorded_flat

\* C9. End to end: a divergence at a flat step with n tokens leaves keep
\* index n-1 and position (n-1, argmax); the backtrack call of that step
\* returns the first n-1 tokens and a cache of n positions cut to n-1; the
\* next on_logits sets the logit of the preferred token to the maximum.
EndToEndBacktrack ==
  /\ (last_op = "on_next_token" /\ diverged /\ is_flat) =>
       /\ keep_index = Len(tokens) - 1
       /\ backtrack_position = <<Len(tokens) - 1, ArgMax(probs)>>
  /\ (last_op = "backtrack" /\ diverged /\ is_flat) =>
       /\ tokens = SubSeq(tokens_in, 1, Len(tokens_in) - 1)
       /\ (Truthy(cache_in) /\ SeqLenIs(cache_in, Len(tokens_in))) =>
            past_key_values = MkCache(Len(cache_in.layers), Len(tokens_in) - 1)
  /\ (last_op = "on_logits" /\ diverged /\ is_flat) =>
       /\ forced
       /\ logits[highest_prob_token + 1] = FMax
       /\ \A t \in Vocab :
            t # highest_prob_token => logits[t + 1] = logits_in[t + 1]

EndToEndBacktrackWitness ==
  /\ last_op = "on_logits"
  /\ diverged
  /\ is_flat
  /\ executed
  /\ forced
  /\ Len(tokens) = 2
  /\ keep_index = 2

\* The claim's own reading of the classifier: k is the least prefix length
\* of the descending distribution whose sum reaches the threshold.
CountAbove(w, v) == Cardinality({i \in 1 .. Len(w) : w[i] > v})
CountAtLeast(w, v) == Cardinality({i \in 1 .. Len(w) : w[i] >= v})
KthLargest(w, k) ==
  LET i == CHOOSE j \in 1 .. Len(w) :
             CountAbove(w, w[j]) < k /\ k <= CountAtLeast(w, w[j])
  IN w[i]
RECURSIVE SumAbove(_, _, _)
SumAbove(w, v, i) ==
  IF i = 0 THEN 0
  ELSE (IF w[i] > v THEN w[i] ELSE 0) + SumAbove(w, v, i - 1)
TopSum(w, k) ==
  LET v == KthLargest(w, k)
  IN SumAbove(w, v, Len(w)) + (k - CountAbove(w, v)) * v
CrossK(d) ==
  CHOOSE k \in 1 .. Len(d.w) :
    /\ TopSum(d.w, k) * CumDen >= CumNum * d.den
    /\ \A j \in 1 .. (k - 1) : TopSum(d.w, j) * CumDen < CumNum * d.den
ClaimedFlat(d) ==
  LET k == CrossK(d)
      top == KthLargest(d.w, 1)
      bottom == KthLargest(d.w, k)
  IN /\ k >= 2
     /\ RatioDen * top - RatioNum * bottom <= (RatioNum * d.den) \div EpsDen

Pending == backtrack_position # None

\* C11, as stated: a divergence detected by on_next_token leaves a position
\* pending, and immediately after a backtrack call that executed no position
\* is pending.
StreamStateMachine ==
  /\ (last_op = "on_next_token" /\ diverged) => Pending
  /\ (last_op = "backtrack" /\ executed) => ~Pending

\* C11, amended: a divergence detected by on_next_token leaves a position
\* pending; a backtrack call that executes leaves that same position pending;
\* the position is consumed by the on_logits call that forces its token.
StreamStateMachineAmended ==
  [][ /\ (last_op' = "on_next_token" /\ diverged') => Pending'
      /\ (last_op' = "backtrack" /\ executed') =>
            (Pending /\ backtrack_position' = backtrack_position)
      /\ (last_op = "backtrack" /\ executed /\ last_op' = "on_logits") =>
            (forced' /\ ~Pending') ]_vars

StreamStateMachineWitness ==
  /\ last_op = "on_logits"
  /\ forced
  /\ bp_at_logits # None
  /\ ~Pending
  /\ Len(tokens) = bp_at_logits[1]

\* ---------------------------------------------------------------- C12
PoppedBound == Max(0, Len(tokens_in) - backtrack_position[1])

\* C12. Bounded truncation: after every backtrack call whose gate holds,
\* whatever the length of the token sequence relative to the frontier, the
\* number of tokens popped is max(0, len(tokens) - frontier index), and
\* every cache array (with at least that many positions) loses exactly
\* that number of trailing positions, none when no token is popped.
BoundedTruncation ==
  (last_op = "backtrack" /\ executed) =>
    /\ Len(tokens_in) - Len(tokens) = PoppedBound
    /\ tokens = SubSeq(tokens_in, 1, Len(tokens))
    /\ Truthy(cache_in) =>
         /\ Len(past_key_values.layers) = Len(cache_in.layers)
         /\ \A i \in 1 .. Len(cache_in.layers) : \A j \in 1 .. 2 :
              Len(cache_in.layers[i][j]) >= PoppedBound =>
                past_key_values.layers[i][j] =
                  SubSeq(cache_in.layers[i][j], 1,
                         Len(cache_in.layers[i][j]) - PoppedBound)

BoundedTruncationRepeated ==
  /\ last_op = "backtrack"
  /\ executed
  /\ PoppedBound = 0
  /\ Truthy(cache_in)

\* ---------------------------------------------------------------- C13
\* C13. Match handling in on_next_token: when tokens[-1] equals the argmax
\* of the distribution, the keep index advances by exactly 1 if no position
\* is pending and stays unchanged if one is pending; the pending position
\* and the flatness verdict are unchanged in both cases.
MatchHandling ==
  [][ (last_op' = "on_next_token" /\ tokens'[Len(tokens')] = ArgMax(probs')) =>
        /\ keep_index' = (IF Pending THEN keep_index ELSE keep_index + 1)
        /\ backtrack_position' = backtrack_position
        /\ is_flat' = is_flat ]_vars

MatchHandlingWitness ==
  /\ last_op = "on_next_token"
  /\ tokens[Len(tokens)] = ArgMax(probs)
  /\ bp_before # None
  /\ backtrack_position = bp_before
  /\ keep_index = bp_before[1]
  /\ Len(tokens) > keep_index + 1

\* ---------------------------------------------------------------- C14
\* C14. on_logits forces exactly when the last recorded verdict is flat and
\* a position is pending: then only the preferred token's logit changes,
\* to the maximum value, and the position is cleared; otherwise the logits
\* and the position are unchanged. The keep index, the verdict and the
\* token sequence are never changed by on_logits.
OnLogitsForcesExactly ==
  [][ last_op' = "on_logits" =>
        /\ IF is_flat /\ Pending
             THEN /\ logits'[backtrack_position[2] + 1] = FMax
                  /\ \A i \in TokenIdx \ {backtrack_position[2] + 1} :
                       logits'[i] = logits_in'[i]
                  /\ ~Pending'
             ELSE /\ logits' = logits_in'
                  /\ backtrack_position' = backtrack_position
        /\ UNCHANGED <<keep_index, is_flat, tokens>> ]_vars

OnLogitsForcesExactlyWitness ==
  /\ last_op = "on_logits"
  /\ bp_at_logits # None
  /\ ~is_flat
  /\ logits = logits_in
  /\ backtrack_position = bp_at_logits

\* ---------------------------------------------------------------- C15
\* C15. on_probs is inspection only: it sets the verdict to the classifier's
\* result for the distribution passed in and returns that distribution
\* unmodified, leaving the keep index, the pending position and the token
\* sequence unchanged. on_logits, on_probs and on_next_token never change
\* the token sequence, and only backtrack shrinks it.
InspectionOnly ==
  [][ /\ last_op' = "on_probs" =>
            /\ is_flat' = IsDistributionFlat(probs_in')
            /\ probs' = probs_in'
            /\ UNCHANGED <<keep_index, backtrack_position, tokens>>
      /\ last_op' \in {"on_logits", "on_probs", "on_next_token"} =>
            tokens' = tokens
      /\ Len(tokens') < Len(tokens) => last_op' = "backtrack" ]_vars

InspectionOnlyWitness ==
  /\ last_op = "on_probs"
  /\ probs_in = Peaked(1)
  /\ probs = probs_in
  /\ ~is_flat
  /\ Pending
  /\ tokens # <<>>

\* ---------------------------------------------------------------- C16
\* C16. Frontier invariant: in every state reached by any sequence of hook
\* calls in which a position is pending, the frontier index of the
\* position equals the keep index.
FrontierInvariant == Pending => backtrack_position[1] = keep_index

FrontierInvariantWitness ==
  /\ last_op = "on_next_token"
  /\ Pending
  /\ backtrack_position[1] = keep_index
  /\ Len(tokens) >= keep_index + 2

\* ---------------------------------------------------------------- C17
\* C17. Force and truncation are paired: when the host calls backtrack on
\* every step, on_logits forces a token if and only if the backtrack call
\* of the step before executed; when it forces, len(tokens) is the frontier
\* index of the position it consumes, and the token the host appends next
\* is the forced token, at the frontier position.
ForceTruncationPaired ==
  /\ last_op = "on_logits" => (forced <=> executed)
  /\ (last_op = "on_logits" /\ forced) =>
       /\ bp_at_logits # None
       /\ Len(tokens) = bp_at_logits[1]
  /\ (last_op = "sample" /\ forced) =>
       /\ Len(tokens) = bp_at_logits[1] + 1
       /\ tokens[bp_at_logits[1] + 1] = bp_at_logits[2]

ForceTruncationPairedWitness ==
  /\ last_op = "sample"
  /\ forced
  /\ executed
  /\ bp_at_logits[1] >= 1
  /\ Len(tokens) = bp_at_logits[1] + 1
  /\ tokens[Len(tokens)] = bp_at_logits[2]

\* ---------------------------------------------------------------- C18
\* C18. Every executed backtrack removes at least one token: in the
\* required call order, at every backtrack call whose gate holds
\* len(tokens) is strictly greater than the pending frontier index, so the
\* cache slice bound (tokens after minus tokens before) is strictly
\* negative.
ExecutedBacktrackRemoves ==
  (last_op = "backtrack" /\ executed) =>
    /\ Len(tokens_in) > backtrack_position[1]
    /\ Len(tokens) - Len(tokens_in) < 0

ExecutedBacktrackRemovesWitness ==
  /\ last_op = "backtrack"
  /\ executed
  /\ Truthy(cache_in)
  /\ Len(tokens) - Len(tokens_in) = -2

\* ---------------------------------------------------------------- C19
\* What a step that began with a position pending, whose verdict is not
\* flat and whose sampled token matches the argmax, leaves at its end.
StepEnds == last_op' \in {"backtrack", "skip"}

QuietStep == bp_at_logits # None /\ ~is_flat /\ ~diverged

LeftPending ==
  /\ backtrack_position' = bp_at_logits
  /\ keep_index' = bp_at_logits[1]
  /\ tokens' = tokens

\* C19, as stated: a pending position is cleared only by on_logits under a
\* flat verdict, and from a state with a position pending every following
\* step whose verdict is not flat and whose sampled token matches the
\* argmax leaves the position pending and the keep index frozen at the
\* frontier and truncates nothing, while the host's append grows the
\* token sequence.
PendingPersists ==
  [][ /\ (Pending /\ ~Pending') => (last_op' = "on_logits" /\ is_flat)
      /\ last_op' = "sample" => Len(tokens') = Len(tokens) + 1
      /\ (StepEnds /\ QuietStep) => LeftPending ]_vars

\* C19, amended: the same, for steps that begin with a position pending
\* and a verdict that is not flat, so that the step's on_logits call does
\* not force.
PendingPersistsAmended ==
  [][ /\ (Pending /\ ~Pending') => (last_op' = "on_logits" /\ is_flat)
      /\ last_op' = "sample" => Len(tokens') = Len(tokens) + 1
      /\ (StepEnds /\ QuietStep /\ ~forced) => LeftPending ]_vars

PendingPersistsWitness ==
  /\ last_op = "backtrack"
  /\ ~executed
  /\ bp_at_logits # None
  /\ ~forced
  /\ ~is_flat
  /\ ~diverged
  /\ backtrack_position = bp_at_logits
  /\ keep_index = bp_at_logits[1]
  /\ Len(tokens) >= keep_index + 2

====
